---- MODULE Spec2Model ----
(***************************************************************************)
(* html-to-png: the viewport capture engine (captureViewport), the plain   *)
(* export entry points and the geometry query getViewportInfo, as a state  *)
(* machine over a small document.                                          *)
(*                                                                         *)
(* JavaScript is single threaded: an async function runs without           *)
(* interruption up to its await, and again from the settling of the        *)
(* awaited promise to its end.  captureViewport therefore has two atomic   *)
(* steps: CaptureViewport (entry up to the await of toCanvas) and          *)
(* CaptureResume (the settling of toCanvas up to the end of finally).      *)
(* Several calls may be suspended at the await at the same time.           *)
(*                                                                         *)
(* An absent (undefined) option or property is a key that is not in the    *)
(* DOMAIN of the record.  Quality is in hundredths (0.95 is 95).           *)
(***************************************************************************)
EXTENDS Integers, Sequences, FiniteSets, TLC

VARIABLES
    containers,   \* the container elements: inline style, class list, geometry
    docHead,      \* ids of the elements appended to document.head, in order
    pc,           \* per captureViewport call: idle, rasterizing, done, failed
    call,         \* per captureViewport call: its locals and what it did
    exp,          \* the exportToPng/Jpeg/Blob/Canvas call
    info,         \* the last getViewportInfo call
    download      \* what downloadImage and downloadBlob have done to the page

vars == <<containers, docHead, pc, call, exp, info, download>>

---------------------------------------------------------------------------
(* Bounds of the model *)

\* captureViewport calls made in one behaviour (they may overlap)
MaxCalls == 2
\* client and scroll sizes range over 1..MaxDim in the geometry specification
MaxDim == 3
\* region coordinates and sizes range over 0..MaxCoord
MaxCoord == 2
\* calls of the download helpers made in one behaviour
MaxDownloads == 2

---------------------------------------------------------------------------
(* Program constants *)

DEFAULT_PIXEL_RATIO == 2
DEFAULT_JPEG_QUALITY == 95
DEFAULT_JPEG_BACKGROUND == "#ffffff"
MARKER_CLASS == "__capture-hide-scrollbars"
STYLE_ID == "__capture-viewport-styles"

NULL == "null"
ContainerIds == {"c1", "c2"}
Targets == ContainerIds \cup {NULL}
Calls == 1..MaxCalls

---------------------------------------------------------------------------
(* JavaScript helpers *)

\* !x for an element reference
Falsy(x) == x = NULL

\* o.f ?? d, and a destructuring default
Get(o, f, d) == IF f \in DOMAIN o THEN o[f] ELSE d

\* { ...a, ...b }
Spread(a, b) ==
    [f \in (DOMAIN a) \cup (DOMAIN b) |-> IF f \in DOMAIN b THEN b[f] ELSE a[f]]

\* const { f1, f2, ...rest } = o
Rest(o, taken) == [f \in (DOMAIN o) \ taken |-> o[f]]

NoOptions == [f \in {} |-> 0]

---------------------------------------------------------------------------
(* The document *)

\* The presentation and geometry of one container element
Element(overflow, scrollbarWidth, webkit, classList, cw, ch, sw, sh, sl, st) ==
    [ overflow |-> overflow, scrollbarWidth |-> scrollbarWidth,
      webkitScrollbarDisplay |-> webkit, classList |-> classList,
      clientWidth |-> cw, clientHeight |-> ch,
      scrollWidth |-> sw, scrollHeight |-> sh,
      scrollLeft |-> sl, scrollTop |-> st ]

\* document.getElementById(id), as a test of presence
HasElementById(head, id) == \E i \in DOMAIN head : head[i] = id

\* How many elements of the head carry the id
CountById(head, id) == Cardinality({i \in DOMAIN head : head[i] = id})

---------------------------------------------------------------------------
(* Option handling *)

\* The conversion with the opaque background for every format
toHtmlToImageOptions_AlwaysWhite(options, isJpeg) ==
    LET passed == {"filter", "width", "height", "skipFonts"} \cap DOMAIN options
    IN  [ f \in {"pixelRatio", "quality", "backgroundColor"} \cup passed |->
            CASE f = "pixelRatio" -> Get(options, "pixelRatio", DEFAULT_PIXEL_RATIO)
              [] f = "quality" -> Get(options, "quality", DEFAULT_JPEG_QUALITY)
              [] f = "backgroundColor" ->
                    Get(options, "backgroundColor", DEFAULT_JPEG_BACKGROUND)
              [] OTHER -> options[f] ]

\* toHtmlToImageOptions(options, isJpeg)
toHtmlToImageOptions(options, isJpeg) ==
    LET passed == {"filter", "width", "height", "skipFonts"} \cap DOMAIN options
        bg == IF "backgroundColor" \in DOMAIN options \/ isJpeg
              THEN {"backgroundColor"} ELSE {}
    IN  [ f \in {"pixelRatio", "quality"} \cup bg \cup passed |->
            CASE f = "pixelRatio" -> Get(options, "pixelRatio", DEFAULT_PIXEL_RATIO)
              [] f = "quality" -> Get(options, "quality", DEFAULT_JPEG_QUALITY)
              [] f = "backgroundColor" ->
                    Get(options, "backgroundColor", DEFAULT_JPEG_BACKGROUND)
              [] OTHER -> options[f] ]

\* The destructured locals of captureViewport
Format(options) == Get(options, "format", "png")
HideScrollbars(options) == Get(options, "hideScrollbars", TRUE)
HasRegion(options) == "region" \in DOMAIN options
PixelRatio(options) == Get(options, "pixelRatio", DEFAULT_PIXEL_RATIO)
RestOptions(options) ==
    Rest(options, {"format", "hideScrollbars", "region", "pixelRatio"})

---------------------------------------------------------------------------
(* The presentation guard of captureViewport *)

\* The three values read before the try block
SavedStyles(el) ==
    [ overflow |-> el.overflow, scrollbarWidth |-> el.scrollbarWidth,
      webkitScrollbarDisplay |-> el.webkitScrollbarDisplay ]

\* An acquisition that sets the inline scrollbar-width only
GuardAcquire_WidthOnly(el) == [el EXCEPT !.scrollbarWidth = "none"]

\* scrollbarWidth = 'none' and classList.add(marker)
GuardAcquire(el) ==
    [el EXCEPT !.scrollbarWidth = "none",
               !.classList = @ \cup {MARKER_CLASS}]

\* The style element appended without looking for one with the id
EnsureStyle_Unchecked(head) == Append(head, STYLE_ID)

\* The style element is appended unless one with the id is present
EnsureStyle(head) ==
    IF HasElementById(head, STYLE_ID) THEN head ELSE Append(head, STYLE_ID)

\* A release that clears the inline scrollbar-width instead of restoring it
GuardRelease_ClearsWidth(el, saved) ==
    [el EXCEPT !.overflow = saved.overflow,
               !.scrollbarWidth = "",
               !.classList = @ \ {MARKER_CLASS}]

\* The finally block
GuardRelease(el, saved) ==
    [el EXCEPT !.overflow = saved.overflow,
               !.scrollbarWidth = saved.scrollbarWidth,
               !.webkitScrollbarDisplay =
                    IF saved.webkitScrollbarDisplay # ""
                    THEN saved.webkitScrollbarDisplay ELSE @,
               !.classList = @ \ {MARKER_CLASS}]

\* A release that runs at the end of the try block only, not on a throw
FinallyExits_ReturnOnly == {"return"}

\* The exits of the try block on which the finally block runs
FinallyExits == {"return", "throw"}

---------------------------------------------------------------------------
(* Measure, rasterize, crop, encode *)

\* The width of the content instead of the visible width
VisibleWidth_Content(el) == el.scrollWidth

\* const visibleWidth = container.clientWidth
VisibleWidth(el) == el.clientWidth

\* const visibleHeight = container.clientHeight
VisibleHeight(el) == el.clientHeight

\* The option set with the spread last, so that explicit sizes win
RasterOptions_ExplicitWins(options, visibleWidth, visibleHeight) ==
    Spread([width |-> visibleWidth, height |-> visibleHeight],
           toHtmlToImageOptions(
               Spread(RestOptions(options), [pixelRatio |-> PixelRatio(options)]),
               Format(options) = "jpeg"))

\* The option set built from restOptions alone, without the pixelRatio local
RasterOptions_RestOnly(options, visibleWidth, visibleHeight) ==
    Spread(toHtmlToImageOptions(RestOptions(options), Format(options) = "jpeg"),
           [width |-> visibleWidth, height |-> visibleHeight])

\* The option set handed to toCanvas by captureViewport
RasterOptions(options, visibleWidth, visibleHeight) ==
    Spread(toHtmlToImageOptions(
               Spread(RestOptions(options), [pixelRatio |-> PixelRatio(options)]),
               Format(options) = "jpeg"),
           [width |-> visibleWidth, height |-> visibleHeight])

\* The surface toCanvas resolves with: the requested logical size times pixelRatio
Rasterized(ropts) ==
    [ surface |-> "full",
      width |-> ropts.width * ropts.pixelRatio,
      height |-> ropts.height * ropts.pixelRatio ]

\* A scaling of the position only
ScaleRegion_PositionOnly(region, pixelRatio) ==
    [ x |-> region.x * pixelRatio, y |-> region.y * pixelRatio,
      width |-> region.width, height |-> region.height ]

\* scaledRegion
ScaleRegion(region, pixelRatio) ==
    [ x |-> region.x * pixelRatio, y |-> region.y * pixelRatio,
      width |-> region.width * pixelRatio, height |-> region.height * pixelRatio ]

\* The cropped canvas and the drawImage call on its context
Crop(region, pixelRatio) ==
    LET scaled == ScaleRegion(region, pixelRatio)
    IN  [ canvasWidth |-> scaled.width, canvasHeight |-> scaled.height,
          image |-> "full",
          sx |-> scaled.x, sy |-> scaled.y,
          sWidth |-> scaled.width, sHeight |-> scaled.height,
          dx |-> 0, dy |-> 0,
          dWidth |-> scaled.width, dHeight |-> scaled.height ]

\* An encoding as JPEG that leaves the quality to the canvas
Encode_NoQuality(surface, width, height, options) ==
    IF Format(options) = "jpeg"
    THEN [ surface |-> surface, width |-> width, height |-> height,
           mime |-> "image/jpeg", quality |-> <<>> ]
    ELSE [ surface |-> surface, width |-> width, height |-> height,
           mime |-> "image/png", quality |-> <<>> ]

\* canvas.toDataURL(...): 'image/jpeg' with a quality, or 'image/png' without
Encode(surface, width, height, options) ==
    IF Format(options) = "jpeg"
    THEN [ surface |-> surface, width |-> width, height |-> height,
           mime |-> "image/jpeg",
           quality |-> <<Get(RestOptions(options), "quality", DEFAULT_JPEG_QUALITY)>> ]
    ELSE [ surface |-> surface, width |-> width, height |-> height,
           mime |-> "image/png", quality |-> <<>> ]

\* What the environment decides while a call runs: whether toCanvas resolves,
\* whether getContext('2d') returns a context, whether toDataURL throws
Envs == [raster : {"resolve", "reject"}, context : BOOLEAN, encoder : {"ok", "throw"}]

RASTER_ERROR == "rasterizer error"
CONTEXT_ERROR == "Failed to get canvas context"
ENCODER_ERROR == "encoder error"
CONTAINER_ERROR == "Container element is required for viewport capture"

\* new Error(message)
NewError(message) == [name |-> "Error", message |-> message]

\* What toCanvas rejects with and what toDataURL throws: objects of the
\* environment, which the call receives as they are
RasterFailure == [name |-> "Error", message |-> RASTER_ERROR]
EncoderFailure == [name |-> "SecurityError", message |-> ENCODER_ERROR]

\* An error wrapped with the name and the tag of the rasterization stage
Surfaced_Tagged(origin) ==
    Spread(origin, [name |-> "RasterizationError", stage |-> "rasterization"])

\* try { ... } finally { ... } has no catch clause: what is thrown inside
\* leaves the call as the same object
Surfaced(origin) == origin

---------------------------------------------------------------------------
(* captureViewport *)

\* A call that has not been made
IdleCall ==
    [ container |-> NULL, options |-> NoOptions,
      pre |-> <<>>,            \* the container as it was on entry
      saved |-> <<>>,          \* originalOverflow, originalScrollbarWidth, ...
      measuredOn |-> <<>>,     \* the container as it was when clientWidth was read
      visibleWidth |-> 0, visibleHeight |-> 0,
      rasterOptions |-> <<>>,  \* the options of each toCanvas invocation
      fullCanvas |-> <<>>, crop |-> <<>>, encoded |-> <<>>,
      trace |-> <<>>,          \* the stages in the order they ran
      env |-> <<>>,            \* what the environment answered where it was asked
      origin |-> <<>>,         \* the error object as it was thrown or rejected with
      thrown |-> <<>>,         \* the error object the call rejects with
      value |-> <<>>, error |-> "" ]

\* Entry up to the await of toCanvas.  A null container rejects at once.
CaptureViewport(k, container, options) ==
    /\ pc[k] = "idle"
    /\ \A j \in Calls : j < k => pc[j] # "idle"
    /\ UNCHANGED <<exp, info, download>>
    /\ IF Falsy(container)
       THEN /\ pc' = [pc EXCEPT ![k] = "failed"]
            /\ call' = [call EXCEPT ![k] =
                    [IdleCall EXCEPT !.options = options,
                        !.origin = <<NewError(CONTAINER_ERROR)>>,
                        !.thrown = <<NewError(CONTAINER_ERROR)>>,
                        !.error = CONTAINER_ERROR]]
            /\ UNCHANGED <<containers, docHead>>
       ELSE LET el == containers[container]
                hide == HideScrollbars(options)
                saved == SavedStyles(el)
                acquired == IF hide THEN GuardAcquire(el) ELSE el
                visibleWidth == VisibleWidth(acquired)
                visibleHeight == VisibleHeight(acquired)
            IN  /\ containers' = [containers EXCEPT ![container] = acquired]
                /\ docHead' = IF hide THEN EnsureStyle(docHead) ELSE docHead
                /\ pc' = [pc EXCEPT ![k] = "rasterizing"]
                /\ call' = [call EXCEPT ![k] =
                        [IdleCall EXCEPT
                            !.container = container, !.options = options,
                            !.pre = <<el>>, !.saved = <<saved>>,
                            !.measuredOn = <<acquired>>,
                            !.visibleWidth = visibleWidth,
                            !.visibleHeight = visibleHeight,
                            !.rasterOptions =
                                <<RasterOptions(options, visibleWidth, visibleHeight)>>,
                            !.trace = (IF hide THEN <<"acquire">> ELSE <<>>)
                                      \o <<"measure", "rasterize">>]]

\* A missing context answered by returning without a value
ThrowNoContext_Swallowed(body) == [body EXCEPT !.exit = "return"]

\* if (!ctx) throw new Error('Failed to get canvas context')
ThrowNoContext(body) ==
    [body EXCEPT !.exit = "throw", !.origin = <<NewError(CONTEXT_ERROR)>>]

\* A try block that encodes the full canvas first and crops afterwards
TryBody_EncodesFirst(c, env) ==
    LET full == Rasterized(c.rasterOptions[1])
        base == [ exit |-> "return", origin |-> <<>>, fullCanvas |-> <<full>>,
                  crop |-> <<>>,
                  encoded |-> <<Encode("full", full.width, full.height, c.options)>>,
                  events |-> <<"encode">>,
                  env |-> [raster |-> env.raster, encoder |-> env.encoder] ]
    IN  IF env.raster = "reject"
        THEN [base EXCEPT !.exit = "throw", !.origin = <<RasterFailure>>,
                          !.fullCanvas = <<>>, !.encoded = <<>>, !.events = <<>>,
                          !.env = [raster |-> env.raster]]
        ELSE IF env.encoder = "throw"
        THEN [base EXCEPT !.exit = "throw", !.origin = <<EncoderFailure>>,
                          !.encoded = <<>>]
        ELSE IF HasRegion(c.options)
        THEN [base EXCEPT !.crop = <<Crop(c.options.region, PixelRatio(c.options))>>,
                          !.events = <<"encode", "crop">>]
        ELSE base

\* The try block from the settling of toCanvas to its return or throw
TryBody(c, env) ==
    LET none == [ exit |-> "throw", origin |-> <<>>, fullCanvas |-> <<>>,
                  crop |-> <<>>, encoded |-> <<>>, events |-> <<>>,
                  env |-> [raster |-> env.raster] ]
        full == Rasterized(c.rasterOptions[1])
    IN  IF env.raster = "reject"
        THEN [none EXCEPT !.origin = <<RasterFailure>>]
        ELSE IF HasRegion(c.options)
        THEN LET cropped == Crop(c.options.region, PixelRatio(c.options))
                 asked == [raster |-> env.raster, context |-> env.context,
                           encoder |-> env.encoder]
             IN  IF ~env.context
                 THEN ThrowNoContext(
                          [none EXCEPT !.fullCanvas = <<full>>,
                                       !.events = <<"crop">>,
                                       !.env = [raster |-> env.raster, context |-> FALSE]])
                 ELSE IF env.encoder = "throw"
                 THEN [none EXCEPT !.origin = <<EncoderFailure>>, !.fullCanvas = <<full>>,
                                   !.crop = <<cropped>>, !.events = <<"crop", "encode">>,
                                   !.env = asked]
                 ELSE [none EXCEPT !.exit = "return", !.fullCanvas = <<full>>,
                                   !.crop = <<cropped>>,
                                   !.encoded = <<Encode("cropped", cropped.canvasWidth,
                                                    cropped.canvasHeight, c.options)>>,
                                   !.events = <<"crop", "encode">>,
                                   !.env = asked]
        ELSE LET asked == [raster |-> env.raster, encoder |-> env.encoder]
             IN  IF env.encoder = "throw"
                 THEN [none EXCEPT !.origin = <<EncoderFailure>>, !.fullCanvas = <<full>>,
                                   !.events = <<"encode">>, !.env = asked]
                 ELSE [none EXCEPT !.exit = "return", !.fullCanvas = <<full>>,
                                   !.encoded = <<Encode("full", full.width, full.height,
                                                        c.options)>>,
                                   !.events = <<"encode">>, !.env = asked]

\* The settling of toCanvas up to the end of the finally block
CaptureResume(k) ==
    /\ pc[k] = "rasterizing"
    /\ UNCHANGED <<docHead, exp, info, download>>
    /\ \E env \in Envs :
        LET c == call[k]
            body == TryBody(c, env)
            released == body.exit \in FinallyExits
        IN  /\ containers' =
                    IF released
                    THEN [containers EXCEPT ![c.container] = GuardRelease(@, c.saved[1])]
                    ELSE containers
            /\ pc' = [pc EXCEPT ![k] = IF body.exit = "return" THEN "done" ELSE "failed"]
            /\ call' = [call EXCEPT ![k] =
                    [c EXCEPT !.fullCanvas = body.fullCanvas, !.crop = body.crop,
                              !.encoded = body.encoded,
                              !.env = <<body.env>>,
                              !.origin = body.origin,
                              !.thrown = IF body.exit = "return" THEN <<>>
                                         ELSE <<Surfaced(body.origin[1])>>,
                              !.value = IF body.exit = "return" THEN body.encoded ELSE <<>>,
                              !.error = IF body.exit = "return" THEN ""
                                        ELSE Surfaced(body.origin[1]).message,
                              !.trace = @ \o body.events \o
                                        (IF released THEN <<"release">> ELSE <<>>)]]

---------------------------------------------------------------------------
(* exportToPng, exportToJpeg, exportToBlob, exportToCanvas *)

ExportKinds == {"png", "jpeg", "blob", "canvas"}

IdleExport ==
    [ pc |-> "idle", kind |-> "", element |-> NULL,
      options |-> NoOptions,
      rasterOptions |-> <<>>,  \* the options of each toPng/toJpeg/toBlob/toCanvas invocation
      outcome |-> "",          \* how the promise of html-to-image settled
      value |-> "", error |-> "" ]

ExportError(kind) ==
    CASE kind = "png" -> "Element is required for PNG export"
      [] kind = "jpeg" -> "Element is required for JPEG export"
      [] kind = "blob" -> "Element is required for Blob export"
      [] kind = "canvas" -> "Element is required for Canvas export"

\* The call of toPng, toJpeg, toBlob or toCanvas, whose promise is returned
ExportInvoke(kind, element, options) ==
    [IdleExport EXCEPT !.pc = "pending", !.kind = kind, !.element = element,
        !.options = options,
        !.rasterOptions = <<toHtmlToImageOptions(options, kind = "jpeg")>>]

\* An export function without its check of the element
ExportCall_Unchecked(kind, element, options) ==
    /\ exp.pc = "idle"
    /\ UNCHANGED <<containers, docHead, pc, call, info, download>>
    /\ exp' = ExportInvoke(kind, element, options)

\* Entry of an export function up to the promise of html-to-image it returns
ExportCall(kind, element, options) ==
    /\ exp.pc = "idle"
    /\ UNCHANGED <<containers, docHead, pc, call, info, download>>
    /\ IF Falsy(element)
       THEN exp' = [IdleExport EXCEPT !.pc = "rejected", !.kind = kind,
                                      !.error = ExportError(kind)]
       ELSE exp' = ExportInvoke(kind, element, options)

\* What html-to-image can settle the promise with: a value, or for toBlob also null
ExportOutcomes(kind) ==
    {"value", "reject"} \cup (IF kind = "blob" THEN {"null"} ELSE {})

\* An export that answers a failure with null
Settled_NullOnFailure(e, outcome) ==
    CASE outcome = "value" ->
            [e EXCEPT !.pc = "resolved", !.outcome = outcome, !.value = e.kind]
      [] outcome = "null" ->
            [e EXCEPT !.pc = "resolved", !.outcome = outcome, !.value = NULL]
      [] outcome = "reject" ->
            [e EXCEPT !.pc = "resolved", !.outcome = outcome, !.value = NULL]

\* An export that answers a failure with a second invocation
Settled_Retries(e, outcome) ==
    CASE outcome = "value" ->
            [e EXCEPT !.pc = "resolved", !.outcome = outcome, !.value = e.kind]
      [] outcome = "null" ->
            [e EXCEPT !.pc = "resolved", !.outcome = outcome, !.value = NULL]
      [] outcome = "reject" ->
            IF Len(e.rasterOptions) < 2
            THEN [e EXCEPT !.rasterOptions = Append(@, @[1])]
            ELSE [e EXCEPT !.pc = "rejected", !.outcome = outcome, !.error = RASTER_ERROR]

\* return toPng(...): the export is settled as the promise of html-to-image is
Settled(e, outcome) ==
    CASE outcome = "value" ->
            [e EXCEPT !.pc = "resolved", !.outcome = outcome, !.value = e.kind]
      [] outcome = "null" ->
            [e EXCEPT !.pc = "resolved", !.outcome = outcome, !.value = NULL]
      [] outcome = "reject" ->
            [e EXCEPT !.pc = "rejected", !.outcome = outcome, !.error = RASTER_ERROR]

\* The returned promise settles as the promise of html-to-image does
ExportSettle ==
    /\ exp.pc = "pending"
    /\ UNCHANGED <<containers, docHead, pc, call, info, download>>
    /\ \E outcome \in ExportOutcomes(exp.kind) : exp' = Settled(exp, outcome)

---------------------------------------------------------------------------
(* getViewportInfo *)

NoInfo == [ status |-> "none", container |-> NULL, value |-> <<>>, error |-> "" ]

\* The record with the comparisons inclusive
ViewportInfo_Inclusive(el) ==
    [ visibleWidth |-> el.clientWidth, visibleHeight |-> el.clientHeight,
      scrollLeft |-> el.scrollLeft, scrollTop |-> el.scrollTop,
      scrollWidth |-> el.scrollWidth, scrollHeight |-> el.scrollHeight,
      isScrollable |-> el.scrollWidth >= el.clientWidth \/ el.scrollHeight >= el.clientHeight,
      hasHorizontalScroll |-> el.scrollWidth >= el.clientWidth,
      hasVerticalScroll |-> el.scrollHeight >= el.clientHeight ]

\* The record getViewportInfo returns
ViewportInfo(el) ==
    LET visibleWidth == el.clientWidth
        visibleHeight == el.clientHeight
        scrollWidth == el.scrollWidth
        scrollHeight == el.scrollHeight
    IN  [ visibleWidth |-> visibleWidth, visibleHeight |-> visibleHeight,
          scrollLeft |-> el.scrollLeft, scrollTop |-> el.scrollTop,
          scrollWidth |-> scrollWidth, scrollHeight |-> scrollHeight,
          isScrollable |-> scrollWidth > visibleWidth \/ scrollHeight > visibleHeight,
          hasHorizontalScroll |-> scrollWidth > visibleWidth,
          hasVerticalScroll |-> scrollHeight > visibleHeight ]

GetViewportInfo(container) ==
    /\ UNCHANGED <<containers, docHead, pc, call, exp, download>>
    /\ IF Falsy(container)
       THEN info' = [NoInfo EXCEPT !.status = "thrown",
                                   !.error = "Container element is required"]
       ELSE info' = [NoInfo EXCEPT !.status = "returned", !.container = container,
                                   !.value = <<ViewportInfo(containers[container])>>]

---------------------------------------------------------------------------
(* downloadImage, downloadBlob *)

\* !x for a string: undefined, null and '' are falsy
FalsyString(x) == x \in {NULL, ""}

\* The page as the download helpers have left it
NoDownload ==
    [ calls |-> 0,           \* calls of downloadImage and downloadBlob so far
      args |-> <<>>,         \* the last call: function, data argument, filename
      status |-> "none",     \* how the last call ended: returned, thrown
      error |-> "",
      appended |-> 0,        \* links appended to document.body
      removed |-> 0,         \* links removed from document.body
      clicks |-> <<>>,       \* link.click(): the href and the download name
      urlsCreated |-> 0,     \* URL.createObjectURL
      urlsRevoked |-> 0 ]    \* URL.revokeObjectURL

\* downloadImage without its check of the filename
downloadImage_NameUnchecked(d, dataUrl, filename) ==
    IF FalsyString(dataUrl)
    THEN [d EXCEPT !.status = "thrown", !.error = "Data URL is required for download"]
    ELSE [d EXCEPT !.status = "returned", !.error = "",
                   !.appended = @ + 1,
                   !.clicks = Append(@, [href |-> dataUrl, download |-> filename]),
                   !.removed = @ + 1]

\* downloadImage(dataUrl, filename)
downloadImage(d, dataUrl, filename) ==
    IF FalsyString(dataUrl)
    THEN [d EXCEPT !.status = "thrown", !.error = "Data URL is required for download"]
    ELSE IF FalsyString(filename)
    THEN [d EXCEPT !.status = "thrown", !.error = "Filename is required for download"]
    ELSE [d EXCEPT !.status = "returned", !.error = "",
                   !.appended = @ + 1,
                   !.clicks = Append(@, [href |-> dataUrl, download |-> filename]),
                   !.removed = @ + 1]

\* The object URL of a blob
ObjectUrl(blob) == "blob:object-url"

\* downloadBlob(blob, filename)
downloadBlob(d, blob, filename) ==
    IF Falsy(blob)
    THEN [d EXCEPT !.status = "thrown", !.error = "Blob is required for download"]
    ELSE IF FalsyString(filename)
    THEN [d EXCEPT !.status = "thrown", !.error = "Filename is required for download"]
    ELSE LET created == [d EXCEPT !.urlsCreated = @ + 1]
             clicked == downloadImage(created, ObjectUrl(blob), filename)
         IN  IF clicked.status = "thrown"
             THEN clicked
             ELSE [clicked EXCEPT !.urlsRevoked = @ + 1]

DataUrls == {NULL, "", "data:image/png;base64,AAAA", "data:image/jpeg;base64,BBBB"}
Blobs == {NULL, "blob"}
Filenames == {NULL, "", "my-export.png", "photo.jpg"}

DownloadImage(dataUrl, filename) ==
    /\ download.calls < MaxDownloads
    /\ download' = [downloadImage(download, dataUrl, filename) EXCEPT
                        !.calls = @ + 1,
                        !.args = <<"downloadImage", dataUrl, filename>>]
    /\ UNCHANGED <<containers, docHead, pc, call, exp, info>>

DownloadBlob(blob, filename) ==
    /\ download.calls < MaxDownloads
    /\ download' = [downloadBlob(download, blob, filename) EXCEPT
                        !.calls = @ + 1,
                        !.args = <<"downloadBlob", blob, filename>>]
    /\ UNCHANGED <<containers, docHead, pc, call, exp, info>>

---------------------------------------------------------------------------
(* The specification of overlapping captures *)

\* What a container may carry before a capture: nothing, a custom inline
\* scrollbar-width, or the suppression already in place
PriorStates ==
    { [scrollbarWidth |-> "", webkit |-> "", classList |-> {}],
      [scrollbarWidth |-> "thin", webkit |-> "block", classList |-> {"editor"}],
      [scrollbarWidth |-> "none", webkit |-> "", classList |-> {"editor", MARKER_CLASS}] }

\* c1 overflows horizontally (800x600 visible of 1600x600); c2 does not overflow
Init ==
    /\ \E p \in PriorStates :
         containers =
            [ c1 |-> Element("auto", p.scrollbarWidth, p.webkit, p.classList,
                             800, 600, 1600, 600, 100, 0),
              c2 |-> Element("hidden", "", "", {}, 400, 300, 400, 300, 0, 0) ]
    /\ docHead = <<>>
    /\ pc = [k \in Calls |-> "idle"]
    /\ call = [k \in Calls |-> IdleCall]
    /\ exp = IdleExport
    /\ info = NoInfo
    /\ download = NoDownload

ExampleRegion == [x |-> 100, y |-> 50, width |-> 400, height |-> 300]

\* The option records of the calls
MainOptions ==
    { NoOptions, [hideScrollbars |-> FALSE], [region |-> ExampleRegion] }

Next ==
    \E k \in Calls :
        \/ \E t \in Targets, o \in MainOptions : CaptureViewport(k, t, o)
        \/ CaptureResume(k)

Spec == Init /\ [][Next]_vars

\* Overlapping captures of containers that carry a custom scrollbar-width, with
\* every suspended call resumed in the end: toCanvas settles
InitFair ==
    /\ containers =
         [ c1 |-> Element("auto", "thin", "block", {"editor"}, 800, 600, 1600, 600, 100, 0),
           c2 |-> Element("hidden", "", "", {}, 400, 300, 400, 300, 0, 0) ]
    /\ docHead = <<>>
    /\ pc = [k \in Calls |-> "idle"]
    /\ call = [k \in Calls |-> IdleCall]
    /\ exp = IdleExport
    /\ info = NoInfo
    /\ download = NoDownload

FairOptions == { NoOptions, [hideScrollbars |-> FALSE, region |-> ExampleRegion] }

NextFair ==
    \E k \in Calls :
        \/ \E t \in Targets, o \in FairOptions : CaptureViewport(k, t, o)
        \/ CaptureResume(k)

FairSpec ==
    InitFair /\ [][NextFair]_vars /\ \A k \in Calls : WF_vars(CaptureResume(k))

---------------------------------------------------------------------------
(* The specification of the whole interface, one operation at a time *)

\* An asynchronous operation is in flight
Busy == exp.pc = "pending" \/ \E k \in Calls : pc[k] = "rasterizing"

ExportOptionSets == { NoOptions, [pixelRatio |-> 3, backgroundColor |-> "#000000"] }

NextApi ==
    \/ \E t \in Targets, o \in MainOptions : ~Busy /\ CaptureViewport(1, t, o)
    \/ CaptureResume(1)
    \/ \E kind \in ExportKinds, t \in Targets, o \in ExportOptionSets :
            ~Busy /\ ExportCall(kind, t, o)
    \/ ExportSettle
    \/ \E t \in Targets : GetViewportInfo(t)

ApiSpec == Init /\ [][NextApi]_vars

---------------------------------------------------------------------------
(* The specification of the geometry: one container of every small size *)

Dims == 1..MaxDim

\* Client and scroll sizes <<clientWidth, clientHeight, scrollWidth, scrollHeight>>:
\* the content is never smaller than the viewport
Geometries ==
    { g \in Dims \X Dims \X Dims \X Dims : g[1] <= g[3] /\ g[2] <= g[4] }
    \cup { <<800, 600, 1600, 600>> }

InitGeom ==
    /\ \E g \in Geometries :
         \E sl \in {0, g[3] - g[1]}, st \in {0, g[4] - g[2]} :
              containers =
                [ c1 |-> Element("auto", "", "", {}, g[1], g[2], g[3], g[4], sl, st),
                  c2 |-> Element("hidden", "", "", {}, 400, 300, 400, 300, 0, 0) ]
    /\ docHead = <<>>
    /\ pc = [k \in Calls |-> "idle"]
    /\ call = [k \in Calls |-> IdleCall]
    /\ exp = IdleExport
    /\ info = NoInfo
    /\ download = NoDownload

PixelRatios == {1, 2, 3}

\* No region: every pixel ratio, absent or given, with and without a format,
\* a quality and explicit sizes
GeomOptions ==
    { NoOptions, [hideScrollbars |-> FALSE], [format |-> "jpeg", quality |-> 80],
      [width |-> 5, height |-> 7] }
    \cup { [pixelRatio |-> p] : p \in PixelRatios }
    \cup { [pixelRatio |-> p, region |-> [x |-> 1, y |-> 0, width |-> 1, height |-> 1]] :
            p \in PixelRatios }

NextGeom ==
    \/ \E t \in Targets, o \in GeomOptions : ~Busy /\ CaptureViewport(1, t, o)
    \/ CaptureResume(1)
    \/ \E t \in Targets : GetViewportInfo(t)

GeomSpec == InitGeom /\ [][NextGeom]_vars

---------------------------------------------------------------------------
(* The specification of the crop: every small region at every pixel ratio *)

Coords == 0..MaxCoord

Regions ==
    { [x |-> x, y |-> y, width |-> w, height |-> h] :
        x \in Coords, y \in Coords, w \in Coords, h \in Coords }
    \cup {ExampleRegion}

CropOptions ==
    { [region |-> r] : r \in Regions }
    \cup { [region |-> r, pixelRatio |-> p] : r \in Regions, p \in PixelRatios }
    \cup { NoOptions, [pixelRatio |-> 3], [format |-> "jpeg", region |-> ExampleRegion] }

InitCrop ==
    /\ containers =
         [ c1 |-> Element("auto", "", "", {}, 800, 600, 1600, 600, 100, 0),
           c2 |-> Element("hidden", "", "", {}, 400, 300, 400, 300, 0, 0) ]
    /\ docHead = <<>>
    /\ pc = [k \in Calls |-> "idle"]
    /\ call = [k \in Calls |-> IdleCall]
    /\ exp = IdleExport
    /\ info = NoInfo
    /\ download = NoDownload

NextCrop ==
    \/ \E o \in CropOptions : CaptureViewport(1, "c1", o)
    \/ CaptureResume(1)

CropSpec == InitCrop /\ [][NextCrop]_vars

---------------------------------------------------------------------------
(* The specification of the download helpers *)

NextDownload ==
    \/ \E u \in DataUrls, f \in Filenames : DownloadImage(u, f)
    \/ \E b \in Blobs, f \in Filenames : DownloadBlob(b, f)

DownloadSpec == InitCrop /\ [][NextDownload]_vars

---------------------------------------------------------------------------
(* The specification of the options: one call of one entry point with every
   combination of the options that reach html-to-image *)

\* pixelRatio, quality, backgroundColor, filter and skipFonts, each absent or given
ExportOptionRecords ==
    { Spread(Spread(Spread(Spread(a, b), c), d), e) :
        a \in {NoOptions} \cup { [pixelRatio |-> p] : p \in {1, 3} },
        b \in {NoOptions, [quality |-> 80]},
        c \in {NoOptions, [backgroundColor |-> "#000000"]},
        d \in {NoOptions, [filter |-> "f"]},
        e \in {NoOptions, [skipFonts |-> TRUE]} }

\* The same with the format absent, 'png' or 'jpeg'
ViewportOptionRecords ==
    { Spread(o, f) : o \in ExportOptionRecords,
                     f \in {NoOptions, [format |-> "png"], [format |-> "jpeg"]} }

NextOpt ==
    \/ \E o \in ViewportOptionRecords : exp.pc = "idle" /\ CaptureViewport(1, "c1", o)
    \/ CaptureResume(1)
    \/ \E kind \in ExportKinds, o \in ExportOptionRecords :
            pc[1] = "idle" /\ ExportCall(kind, "c1", o)
    \/ ExportSettle

OptSpec == InitCrop /\ [][NextOpt]_vars

---------------------------------------------------------------------------
(* The specification of the encoding: one capture with every combination of
   format, quality, pixel ratio and region *)

Qualities == {50, 80}

EncodeOptions ==
    { Spread(Spread(Spread(f, q), p), r) :
        f \in {NoOptions, [format |-> "png"], [format |-> "jpeg"]},
        q \in {NoOptions} \cup { [quality |-> v] : v \in Qualities },
        p \in {NoOptions} \cup { [pixelRatio |-> v] : v \in PixelRatios },
        r \in {NoOptions, [region |-> ExampleRegion]} }

NextEncode ==
    \/ \E o \in EncodeOptions : CaptureViewport(1, "c1", o)
    \/ CaptureResume(1)

EncodeSpec == InitCrop /\ [][NextEncode]_vars

---------------------------------------------------------------------------
(* Properties *)

Terminal == {"done", "failed"}

\* The call passed the null-container check
Entered(k) == pc[k] # "idle" /\ call[k].container # NULL

\* How often a stage occurs in a trace, and where it occurs first (0: nowhere)
Occurrences(trace, e) == Cardinality({i \in DOMAIN trace : trace[i] = e})
Position(trace, e) ==
    IF \E i \in DOMAIN trace : trace[i] = e
    THEN CHOOSE i \in DOMAIN trace : trace[i] = e /\ \A j \in 1..(i - 1) : trace[j] # e
    ELSE 0

\* The stage a trace ends with ("": none)
LastStage(trace) == IF trace = <<>> THEN "" ELSE trace[Len(trace)]

\* The pixel ratio of a call: the option, or 2 when it is absent
GivenPixelRatio(o) == IF "pixelRatio" \in DOMAIN o THEN o.pixelRatio ELSE 2

\* C1: a captureViewport call that passed the null-container check has run no
\* guard release while it is suspended in rasterization, and has run exactly
\* one, as its last stage, once it has resolved or rejected, whichever way it
\* left the try block (return, rasterizer failure, no 2D context, encoder failure).
C1_ExactlyOneRelease ==
    \A k \in Calls :
        /\ pc[k] = "rasterizing" => Occurrences(call[k].trace, "release") = 0
        /\ (pc[k] \in Terminal /\ call[k].container # NULL) =>
              /\ Occurrences(call[k].trace, "release") = 1
              /\ LastStage(call[k].trace) = "release"

\* A call with hideScrollbars that the rasterizer failed, released once
C1_Witness ==
    \E k \in Calls :
        /\ pc[k] = "failed" /\ call[k].error = RASTER_ERROR
        /\ HideScrollbars(call[k].options)
        /\ Occurrences(call[k].trace, "release") = 1

\* C2: once the single captureViewport call on a container has resolved or
\* rejected, the container's inline scrollbar-width is the one it had
\* immediately before the call.
C2_ScrollbarWidthRoundTrip ==
    (pc[1] \in Terminal /\ call[1].container # NULL) =>
        containers[call[1].container].scrollbarWidth = call[1].pre[1].scrollbarWidth

\* A call with hideScrollbars on a container with a custom scrollbar-width, rejected
C2_Witness ==
    /\ pc[1] = "failed" /\ call[1].container = "c1"
    /\ HideScrollbars(call[1].options)
    /\ call[1].pre[1].scrollbarWidth = "thin"
    /\ containers["c1"].scrollbarWidth = "thin"

\* C3: once a captureViewport call has resolved or rejected, the container's
\* class list is the one it had immediately before the call.
C3_ClassListRestored ==
    (pc[1] \in Terminal /\ call[1].container # NULL) =>
        containers[call[1].container].classList = call[1].pre[1].classList

\* C4: the document never holds more than one element with the id of the
\* shared style resource, and once it holds one it holds it in every later state.
C4_StyleOnceAndForAll ==
    /\ [](CountById(docHead, STYLE_ID) <= 1)
    /\ [][HasElementById(docHead, STYLE_ID) => HasElementById(docHead', STYLE_ID)]_vars

\* Two calls with hideScrollbars have run their acquisition, and one style is there
C4_Witness ==
    /\ \E j \in Calls, k \in Calls :
          /\ j # k /\ Entered(j) /\ Entered(k)
          /\ HideScrollbars(call[j].options) /\ HideScrollbars(call[k].options)
    /\ CountById(docHead, STYLE_ID) = 1

C6_MeasureBeforeAcquire ==
    \A k \in Calls :
        Entered(k) =>
            /\ Position(call[k].trace, "acquire") # 0 =>
                  Position(call[k].trace, "measure") < Position(call[k].trace, "acquire")
            /\ call[k].measuredOn = call[k].pre

\* C7: getViewportInfo of a container returns its client and scroll values,
\* hasHorizontalScroll = (scrollWidth > clientWidth), hasVerticalScroll =
\* (scrollHeight > clientHeight) and isScrollable = their disjunction.
C7_ViewportInfo ==
    info.status = "returned" =>
        LET v == info.value[1]
            el == containers[info.container]
        IN  /\ v.visibleWidth = el.clientWidth /\ v.visibleHeight = el.clientHeight
            /\ v.scrollLeft = el.scrollLeft /\ v.scrollTop = el.scrollTop
            /\ v.scrollWidth = el.scrollWidth /\ v.scrollHeight = el.scrollHeight
            /\ v.hasHorizontalScroll = (el.scrollWidth > el.clientWidth)
            /\ v.hasVerticalScroll = (el.scrollHeight > el.clientHeight)
            /\ v.isScrollable = (v.hasHorizontalScroll \/ v.hasVerticalScroll)

\* The documented example: 800x600 visible of 1600x600
C7_Witness ==
    /\ info.status = "returned"
    /\ info.value[1].visibleWidth = 800 /\ info.value[1].visibleHeight = 600
    /\ info.value[1].scrollWidth = 1600 /\ info.value[1].scrollHeight = 600
    /\ info.value[1].isScrollable
    /\ info.value[1].hasHorizontalScroll /\ ~info.value[1].hasVerticalScroll

\* C8: the step in which an entry point is called with a null element or
\* container ends the call with an error, invokes no rasterizer and changes
\* neither a container nor the document head.
C8_NullTargetNoEffect ==
    [][ /\ \A k \in Calls :
              (pc[k] = "idle" /\ pc'[k] # "idle" /\ call'[k].container = NULL) =>
                  /\ pc'[k] = "failed" /\ call'[k].error # ""
                  /\ call'[k].rasterOptions = <<>>
                  /\ UNCHANGED <<containers, docHead>>
        /\ (exp.pc = "idle" /\ exp'.pc # "idle" /\ exp'.element = NULL) =>
              /\ exp'.pc = "rejected" /\ exp'.error # ""
              /\ exp'.rasterOptions = <<>>
              /\ UNCHANGED <<containers, docHead>>
        /\ (info' # info /\ info'.container = NULL) =>
              /\ info'.status = "thrown" /\ info'.error # ""
              /\ UNCHANGED <<containers, docHead>>
      ]_vars

\* An export, a capture and a query have each been called with null
C8_Witness ==
    /\ exp.pc = "rejected" /\ exp.element = NULL /\ exp.rasterOptions = <<>>
    /\ pc[1] = "failed" /\ call[1].container = NULL
    /\ info.status = "thrown"
    /\ docHead = <<>>

\* C9: the crop of a call with region {x,y,width,height} and pixel ratio p
\* copies the rectangle {x*p, y*p, width*p, height*p} of the full surface to
\* the origin of a new surface of width*p by height*p, unscaled, and that
\* surface is the one encoded.
C9_CropScaling ==
    \A k \in Calls :
        call[k].crop # <<>> =>
            LET r == call[k].options.region
                p == GivenPixelRatio(call[k].options)
                c == call[k].crop[1]
            IN  /\ c.image = "full"
                /\ c.sx = r.x * p /\ c.sy = r.y * p
                /\ c.sWidth = r.width * p /\ c.sHeight = r.height * p
                /\ c.dx = 0 /\ c.dy = 0
                /\ c.dWidth = r.width * p /\ c.dHeight = r.height * p
                /\ c.canvasWidth = r.width * p /\ c.canvasHeight = r.height * p
                /\ call[k].encoded # <<>> =>
                      /\ call[k].encoded[1].surface = "cropped"
                      /\ call[k].encoded[1].width = r.width * p
                      /\ call[k].encoded[1].height = r.height * p

\* The documented example: region {100,50,400,300} at pixel ratio 2
C9_Witness ==
    /\ pc[1] = "done"
    /\ call[1].options = [region |-> ExampleRegion, pixelRatio |-> 2]
    /\ call[1].crop[1].sx = 200 /\ call[1].crop[1].sy = 100
    /\ call[1].crop[1].sWidth = 800 /\ call[1].crop[1].sHeight = 600
    /\ call[1].crop[1].canvasWidth = 800 /\ call[1].crop[1].canvasHeight = 600

Normalized(o, ropts, lossy) ==
    /\ ropts.pixelRatio = (IF "pixelRatio" \in DOMAIN o THEN o.pixelRatio ELSE 2)
    /\ ropts.quality = (IF "quality" \in DOMAIN o THEN o.quality ELSE 95)
    /\ IF "backgroundColor" \in DOMAIN o
       THEN "backgroundColor" \in DOMAIN ropts /\ ropts.backgroundColor = o.backgroundColor
       ELSE IF lossy
       THEN "backgroundColor" \in DOMAIN ropts /\ ropts.backgroundColor = "#ffffff"
       ELSE "backgroundColor" \notin DOMAIN ropts
    /\ \A f \in {"filter", "skipFonts"} :
         IF f \in DOMAIN o
         THEN f \in DOMAIN ropts /\ ropts[f] = o[f]
         ELSE f \notin DOMAIN ropts

\* C11: the option set handed to html-to-image by captureViewport and by each
\* export function has pixelRatio = the given value or 2, quality = the given
\* value or 0.95, backgroundColor = the given value, else '#ffffff' for lossy
\* output (exportToJpeg, format 'jpeg') and undefined for the other output;
\* filter and skipFonts are as given.
C11_RasterizerOptions ==
    /\ \A k \in Calls :
         call[k].rasterOptions # <<>> =>
            Normalized(call[k].options, call[k].rasterOptions[1],
                       "format" \in DOMAIN call[k].options
                           /\ call[k].options.format = "jpeg")
    /\ exp.rasterOptions # <<>> =>
            Normalized(exp.options, exp.rasterOptions[1], exp.kind = "jpeg")

\* A PNG export was handed only a filter: the defaults are filled in, the
\* filter is passed on and there is no background
C11_Witness ==
    /\ exp.pc = "resolved" /\ exp.kind = "png"
    /\ exp.options = [filter |-> "f"]
    /\ exp.rasterOptions = <<[pixelRatio |-> 2, quality |-> 95, filter |-> "f"]>>

\* C12: a captureViewport call made without width and height options hands
\* html-to-image the container's clientWidth and clientHeight as width and
\* height, and not its scrollWidth or scrollHeight where the content overflows.
C12_VisibleSize ==
    \A k \in Calls :
        (Entered(k) /\ {"width", "height"} \cap DOMAIN call[k].options = {}) =>
            LET el == containers[call[k].container]
                ro == call[k].rasterOptions[1]
            IN  /\ Len(call[k].rasterOptions) = 1
                /\ ro.width = el.clientWidth /\ ro.height = el.clientHeight
                /\ el.scrollWidth > el.clientWidth => ro.width # el.scrollWidth
                /\ el.scrollHeight > el.clientHeight => ro.height # el.scrollHeight

\* A container that overflows on both axes has been captured at its client size
C12_Witness ==
    /\ pc[1] = "done" /\ call[1].container = "c1" /\ call[1].options = NoOptions
    /\ containers["c1"].scrollWidth > containers["c1"].clientWidth
    /\ containers["c1"].scrollHeight > containers["c1"].clientHeight
    /\ call[1].rasterOptions[1].width = containers["c1"].clientWidth
    /\ call[1].rasterOptions[1].height = containers["c1"].clientHeight

\* C13: when the options of a captureViewport call carry a width or a height,
\* that value, and not the measured one, is the width or height handed to
\* html-to-image.
C13_ExplicitSizeWins ==
    \A k \in Calls :
        Entered(k) =>
            LET o == call[k].options
                ro == call[k].rasterOptions[1]
            IN  /\ "width" \in DOMAIN o => ro.width = o.width
                /\ "height" \in DOMAIN o => ro.height = o.height

\* C14: no failure is swallowed.  A captureViewport call whose toCanvas
\* rejected, whose crop got no 2D context, or whose toDataURL threw, has
\* rejected with that error and has no value; exportToPng, exportToJpeg and
\* exportToCanvas have rejected whenever the promise of html-to-image did.
C14_NoFailureSwallowed ==
    /\ \A k \in Calls :
         call[k].env # <<>> =>
            LET e == call[k].env[1]
                Rejected(message) ==
                    /\ pc[k] = "failed" /\ call[k].value = <<>>
                    /\ call[k].error = message
                    /\ call[k].thrown # <<>> /\ call[k].thrown[1].message = message
            IN  /\ e.raster = "reject" => Rejected(RASTER_ERROR)
                /\ ("context" \in DOMAIN e /\ ~e.context) => Rejected(CONTEXT_ERROR)
                /\ ("encoder" \in DOMAIN e /\ e.encoder = "throw") =>
                        Rejected(ENCODER_ERROR)
    /\ (exp.kind \in {"png", "jpeg", "canvas"} /\ exp.outcome = "reject") =>
            /\ exp.pc = "rejected" /\ exp.value = ""
            /\ exp.error = RASTER_ERROR

\* A capture with a region got no 2D context and has rejected
C14_Witness ==
    /\ pc[1] = "failed" /\ HasRegion(call[1].options)
    /\ call[1].env = <<[raster |-> "resolve", context |-> FALSE]>>
    /\ call[1].error = CONTEXT_ERROR /\ call[1].value = <<>>

C17_DownloadPreconditions ==
    [][ download'.calls # download.calls =>
          LET a == download'.args
              noData == a[2] \in {NULL, ""}
              noName == a[3] \in {NULL, ""}
          IN  (noData \/ noName) =>
                /\ download'.status = "thrown"
                /\ download'.error =
                      IF noData
                      THEN IF a[1] = "downloadBlob"
                           THEN "Blob is required for download"
                           ELSE "Data URL is required for download"
                      ELSE "Filename is required for download"
                /\ download'.appended = download.appended
                /\ download'.removed = download.removed
                /\ download'.clicks = download.clicks
                /\ download'.urlsCreated = download.urlsCreated
                /\ download'.urlsRevoked = download.urlsRevoked
                /\ UNCHANGED <<containers, docHead>> ]_vars

\* After a download that went through, downloadBlob was called with a blob
\* and an empty filename: it threw and the page is as the first call left it
C17_Witness ==
    /\ download.calls = 2
    /\ download.args = <<"downloadBlob", "blob", "">>
    /\ download.status = "thrown"
    /\ download.appended = 1 /\ Len(download.clicks) = 1
    /\ download.urlsCreated = 0

\* The place of a stage in the fixed order (the measurement has none)
Rank(stage) ==
    CASE stage = "acquire" -> 1
      [] stage = "rasterize" -> 2
      [] stage = "crop" -> 3
      [] stage = "encode" -> 4
      [] stage = "release" -> 5
      [] OTHER -> 0

\* C18: within one captureViewport call the stages guard acquisition,
\* rasterizer invocation, crop, encode, guard release run at most once each
\* and in that order; the crop runs only when a region is given; the
\* rasterizer is not invoked before the guard is acquired, the crop does not
\* start before the rasterizer has resolved, the encoding does not start
\* before the crop has finished, and a call that resolved has encoded before
\* it released.
C18_StageOrder ==
    \A k \in Calls :
        LET t == call[k].trace
            Ran(e) == Occurrences(t, e) > 0
        IN  /\ \A i, j \in DOMAIN t :
                 (i < j /\ Rank(t[i]) > 0 /\ Rank(t[j]) > 0) => Rank(t[i]) < Rank(t[j])
            /\ Ran("crop") => HasRegion(call[k].options)
            /\ (Ran("rasterize") /\ HideScrollbars(call[k].options)) => Ran("acquire")
            /\ Ran("crop") => (Ran("rasterize") /\ call[k].fullCanvas # <<>>)
            /\ (Ran("encode") /\ HasRegion(call[k].options)) =>
                    (Ran("crop") /\ call[k].crop # <<>>)
            /\ pc[k] = "done" => (Ran("encode") /\ LastStage(t) = "release")

\* A call with a region has run all five stages and resolved
C18_Witness ==
    /\ pc[1] = "done" /\ HasRegion(call[1].options)
    /\ call[1].trace = <<"acquire", "measure", "rasterize", "crop", "encode", "release">>

\* C19: no retries.  A call of captureViewport has invoked toCanvas at most
\* once, and a call of an export function has invoked its html-to-image
\* function at most once; a call whose invocation failed has invoked it once.
C19_NoRetries ==
    /\ \A k \in Calls :
         /\ Len(call[k].rasterOptions) <= 1
         /\ Occurrences(call[k].trace, "rasterize") = Len(call[k].rasterOptions)
         /\ (call[k].env # <<>> /\ call[k].env[1].raster = "reject") =>
                (pc[k] = "failed" /\ Len(call[k].rasterOptions) = 1)
    /\ Len(exp.rasterOptions) <= 1
    /\ exp.outcome = "reject" => (exp.pc = "rejected" /\ Len(exp.rasterOptions) = 1)

\* toPng has rejected: exportToPng has rejected after the one invocation
C19_Witness ==
    /\ exp.kind = "png" /\ exp.outcome = "reject" /\ exp.pc = "rejected"
    /\ Len(exp.rasterOptions) = 1

\* C20: while the one captureViewport call is suspended in rasterization, if
\* hideScrollbars is true or absent the container's inline scrollbar-width is
\* 'none', it carries the marker class and the style element is in the
\* document; if hideScrollbars is false the inline scrollbar-width and the
\* class list are as before the call and no style element has been inserted.
C20_SuppressionAsRequested ==
    pc[1] = "rasterizing" =>
        LET el == containers[call[1].container]
            before == call[1].pre[1]
        IN  IF HideScrollbars(call[1].options)
            THEN /\ el.scrollbarWidth = "none"
                 /\ MARKER_CLASS \in el.classList
                 /\ HasElementById(docHead, STYLE_ID)
            ELSE /\ el.scrollbarWidth = before.scrollbarWidth
                 /\ el.classList = before.classList
                 /\ docHead = <<>>

\* A call with hideScrollbars false is suspended on a container that carries
\* a custom scrollbar-width
C20_Witness ==
    /\ pc[1] = "rasterizing" /\ call[1].container = "c1"
    /\ call[1].options = [hideScrollbars |-> FALSE]
    /\ containers["c1"].scrollbarWidth = "thin"
    /\ containers["c1"].classList = {"editor"}

\* C21: what a captureViewport call that resolved has encoded, the cropped
\* surface when a region was given and the full surface otherwise, is encoded
\* as JPEG with the given quality, or 0.95 without one, when the format is
\* 'jpeg', and as PNG with no quality handed to the encoder when the format is
\* 'png' or absent, whatever the quality option.
C21_EncodeFormat ==
    \A k \in Calls :
        pc[k] = "done" =>
            LET o == call[k].options
                e == call[k].encoded[1]
            IN  /\ Len(call[k].encoded) = 1
                /\ call[k].value = call[k].encoded
                /\ e.surface = (IF "region" \in DOMAIN o THEN "cropped" ELSE "full")
                /\ IF "format" \in DOMAIN o /\ o.format = "jpeg"
                   THEN /\ e.mime = "image/jpeg"
                        /\ e.quality = <<IF "quality" \in DOMAIN o THEN o.quality ELSE 95>>
                   ELSE /\ e.mime = "image/png"
                        /\ e.quality = <<>>

\* A cropped capture was encoded as JPEG with the quality given
C21_Witness ==
    /\ pc[1] = "done"
    /\ call[1].options = [format |-> "jpeg", quality |-> 80, region |-> ExampleRegion]
    /\ call[1].encoded[1].surface = "cropped"
    /\ call[1].encoded[1].mime = "image/jpeg"
    /\ call[1].encoded[1].quality = <<80>>

\* C22: in a captureViewport call with a region, the rectangle copied from the
\* full surface and the size of the cropped surface are the region's fields
\* times the pixelRatio handed to toCanvas, the ratio at which the full
\* surface was rasterized, whether the pixelRatio option is absent or 1, 2 or 3.
C22_SameRasterSpace ==
    \A k \in Calls :
        (Entered(k) /\ HasRegion(call[k].options)) =>
            LET r == call[k].options.region
                p == call[k].rasterOptions[1].pixelRatio
            IN  /\ p = PixelRatio(call[k].options)
                /\ call[k].fullCanvas # <<>> =>
                      /\ call[k].fullCanvas[1].width = call[k].visibleWidth * p
                      /\ call[k].fullCanvas[1].height = call[k].visibleHeight * p
                /\ call[k].crop # <<>> =>
                      LET c == call[k].crop[1]
                      IN  /\ c.sx = r.x * p /\ c.sy = r.y * p
                          /\ c.sWidth = r.width * p /\ c.sHeight = r.height * p
                          /\ c.canvasWidth = r.width * p
                          /\ c.canvasHeight = r.height * p

\* A region away from the origin was cropped at pixel ratio 3, the ratio of
\* the full surface
C22_Witness ==
    /\ pc[1] = "done"
    /\ call[1].options =
          [region |-> [x |-> 1, y |-> 2, width |-> 2, height |-> 1], pixelRatio |-> 3]
    /\ call[1].rasterOptions[1].pixelRatio = 3
    /\ call[1].fullCanvas[1].width = 2400
    /\ call[1].crop[1].sx = 3 /\ call[1].crop[1].sy = 6
    /\ call[1].crop[1].sWidth = 6 /\ call[1].crop[1].sHeight = 3

\* Calls 1 and 2 hide the scrollbars of the same container, and call 2 started
\* while call 1 was suspended: it found the marker class call 1 had added,
\* which the release of a finished call 1 would have removed
Overlapped ==
    /\ Entered(1) /\ Entered(2)
    /\ call[1].container = call[2].container
    /\ HideScrollbars(call[1].options) /\ HideScrollbars(call[2].options)
    /\ MARKER_CLASS \in call[2].pre[1].classList

\* C23: once two overlapping captureViewport calls with hideScrollbars true on
\* the same container have both completed, the container's inline
\* scrollbar-width is the one it had before the first call started and the
\* marker class is absent, whichever call completed first.
C23_OverlapRestored ==
    (Overlapped /\ pc[1] \in Terminal /\ pc[2] \in Terminal) =>
        LET el == containers[call[1].container]
        IN  /\ el.scrollbarWidth = call[1].pre[1].scrollbarWidth
            /\ MARKER_CLASS \notin el.classList

====
